---- MODULE Spec2Model ----
(***************************************************************************)
(* A model of gem_scams.py: the poedb outcome-distribution parser, the     *)
(* poe.ninja listing parser, the price lookup, the profitability engine    *)
(* and the two report sections of main.                                    *)
(*                                                                         *)
(* Numbers.  Prices and lens costs are integers (a fixed small unit of the *)
(* divine/chaos value).  A probability is an exact rational [n, d], d > 0, *)
(* as is an expected profit; Python computes both in binary floating point *)
(* and the model abstracts from the rounding.                              *)
(*                                                                         *)
(* Strings.  A name is a sequence of chunks: words and single spaces.  A   *)
(* quality word or the word Vaal is always a chunk of its own, so that     *)
(* s.startswith(word) is "the first chunk of s is word".                   *)
(***************************************************************************)
EXTENDS Integers, Sequences, FiniteSets, TLC

VARIABLES rows, gem_chances, lines, results, prices, all_chances, args, price, good, printed, pc

vars == <<rows, gem_chances, lines, results, prices, all_chances, args, price, good, printed, pc>>

(***************************************************************************)
(* Bounds of the model                                                     *)
(***************************************************************************)
MaxCatalog == 2
MaxPrice == 2
MaxCost == 1
MaxRows == 3
MaxWeight == 2
MaxNameLen == 3
MaxLines == 2
MaxCount == 2

(***************************************************************************)
(* Program constants                                                       *)
(***************************************************************************)
MaxedLevel == 20
MaxedQuality == 20
DefaultMinAmount == 10

\* A string is a sequence of chunks: words and single spaces.
rare_gems ==
    { <<"Empower", " ", "Support">>,
      <<"Enlighten", " ", "Support">>,
      <<"Enhance", " ", "Support">>,
      <<"Elemental", " ", "Penetration", " ", "Support">>,
      <<"Block", " ", "Chance", " ", "Reduction", " ", "Support">>,
      <<"Portal">> }

(***************************************************************************)
(* General helpers                                                         *)
(***************************************************************************)
SeqsUpTo(S, n) == UNION { [1..k -> S] : k \in 0..n }

Range(s) == { s[i] : i \in DOMAIN s }

(***************************************************************************)
(* class Gem                                                               *)
(***************************************************************************)
Gem(name, quality_type, is_vaal, is_corrupted, level, quality, price_chaos, price_div, count) ==
    [ name |-> name, quality_type |-> quality_type, is_vaal |-> is_vaal,
      is_corrupted |-> is_corrupted, level |-> level, quality |-> quality,
      price_chaos |-> price_chaos, price_div |-> price_div, count |-> count ]

(***************************************************************************)
(* find_price                                                              *)
(***************************************************************************)
\* The loop body of find_price: TRUE when the listing is appended to results.
FindPriceKeeps(gem, name, quality_type, maxed, min_amount) ==
    /\ ~(gem.name # name \/ gem.quality_type # quality_type)
    /\ ~gem.is_corrupted
    /\ maxed => (~(gem.level < MaxedLevel) /\ ~(gem.quality < MaxedQuality))
    /\ ~(gem.count < min_amount)

\* list.sort(key=lambda g: g.price_div): a stable ascending sort.
RECURSIVE InsertByPriceDiv(_, _)
InsertByPriceDiv(g, s) ==
    IF s = <<>> THEN <<g>>
    ELSE IF s[Len(s)].price_div <= g.price_div THEN Append(s, g)
    ELSE Append(InsertByPriceDiv(g, SubSeq(s, 1, Len(s) - 1)), s[Len(s)])

RECURSIVE SortByPriceDiv(_)
SortByPriceDiv(s) ==
    IF s = <<>> THEN <<>>
    ELSE InsertByPriceDiv(s[Len(s)], SortByPriceDiv(SubSeq(s, 1, Len(s) - 1)))

\* A faulty variant: the first surviving listing, without the sort.
find_price_unsorted(catalog, name, quality_type, maxed, min_amount) ==
    LET keep(g) == FindPriceKeeps(g, name, quality_type, maxed, min_amount)
        found == SelectSeq(catalog, keep)
    IN  IF found = <<>> THEN 0 ELSE found[1].price_div

find_price(catalog, name, quality_type, maxed, min_amount) ==
    LET keep(g) == FindPriceKeeps(g, name, quality_type, maxed, min_amount)
        found == SelectSeq(catalog, keep)
    IN  IF found = <<>> THEN 0 ELSE SortByPriceDiv(found)[1].price_div

(***************************************************************************)
(* Inputs of the price lookup                                              *)
(***************************************************************************)
Fireball == <<"Fireball">>
Spark == <<"Spark">>
ExampleSupport == <<"Example", " ", "Support">>
Portal == <<"Portal">>

NameTags == { <<Fireball, "Anomalous">>, <<Fireball, "Divergent">>, <<Spark, "Anomalous">> }

NoFlaw == [c |-> FALSE, l |-> MaxedLevel, q |-> MaxedQuality, n |-> DefaultMinAmount]

\* A listing that passes every filter, or fails exactly one of them.
Flaws ==
    { NoFlaw,
      [c |-> TRUE, l |-> MaxedLevel, q |-> MaxedQuality, n |-> DefaultMinAmount],
      [c |-> FALSE, l |-> MaxedLevel - 1, q |-> MaxedQuality, n |-> DefaultMinAmount],
      [c |-> FALSE, l |-> MaxedLevel, q |-> MaxedQuality - 1, n |-> DefaultMinAmount],
      [c |-> FALSE, l |-> MaxedLevel, q |-> MaxedQuality, n |-> DefaultMinAmount - 1] }

GemPool ==
    { Gem(nt[1], nt[2], FALSE, f.c, f.l, f.q, p, p, f.n) :
        nt \in NameTags, f \in Flaws, p \in 0..MaxPrice }

MinAmounts == { 0, DefaultMinAmount }

NoArgs ==
    [ name |-> <<>>, quality_type |-> "", maxed |-> FALSE, guaranteed_only |-> FALSE,
      min_amount |-> 0, count |-> 0, primary |-> 0, secondary |-> 0 ]

(***************************************************************************)
(* Specification of the price lookup: any catalog, any query               *)
(***************************************************************************)
InitPrice ==
    /\ prices \in SeqsUpTo(GemPool, MaxCatalog)
    /\ rows = <<>> /\ gem_chances = <<>> /\ lines = <<>> /\ results = <<>>
    /\ all_chances = <<>> /\ args = NoArgs
    /\ price = 0 /\ good = <<>> /\ printed = <<>> /\ pc = "start"

FindPrice ==
    /\ pc = "start"
    /\ \E nt \in NameTags, maxed \in BOOLEAN, min_amount \in MinAmounts :
          /\ args' = [NoArgs EXCEPT !.name = nt[1], !.quality_type = nt[2],
                                    !.maxed = maxed, !.min_amount = min_amount]
          /\ price' = find_price(prices, nt[1], nt[2], maxed, min_amount)
          /\ pc' = "find_price"
          /\ UNCHANGED <<rows, gem_chances, lines, results, prices, all_chances, good, printed>>

NextPrice == FindPrice

SpecPrice == InitPrice /\ [][NextPrice]_vars

\* C1: find_price returns the minimum price_div over exactly the listings that
\* match name and quality_type, are not corrupted, have count >= min_amount and,
\* only when maxed, have level >= 20 and quality >= 20; it returns 0 when there
\* is no such listing.
Eligible(catalog, a) ==
    { i \in DOMAIN catalog :
        /\ catalog[i].name = a.name
        /\ catalog[i].quality_type = a.quality_type
        /\ catalog[i].is_corrupted = FALSE
        /\ catalog[i].count >= a.min_amount
        /\ a.maxed => (catalog[i].level >= 20 /\ catalog[i].quality >= 20) }

C1_FindPriceIsMinimum ==
    pc = "find_price" =>
        LET E == Eligible(prices, args)
        IN  /\ E = {} => price = 0
            /\ E # {} => /\ \E i \in E : prices[i].price_div = price
                         /\ \A i \in E : price <= prices[i].price_div

C1_Witness ==
    /\ pc = "find_price"
    /\ args.maxed
    /\ Cardinality(Eligible(prices, args)) = 1
    /\ \E i \in DOMAIN prices :
          /\ i \notin Eligible(prices, args)
          /\ prices[i].name = args.name
          /\ prices[i].quality_type = args.quality_type
          /\ prices[i].price_div < price

(***************************************************************************)
(* Rational numbers (Python floats, without the rounding)                  *)
(***************************************************************************)
Rat(n, d) == [n |-> n, d |-> d]

RatAdd(a, b) == Rat(a.n * b.d + b.n * a.d, a.d * b.d)

RatTimesInt(a, k) == Rat(a.n * k, a.d)

RatMinusInt(a, k) == Rat(a.n - k * a.d, a.d)

RatEq(a, b) == a.n * b.d = b.n * a.d

RatLess(a, b) == a.n * b.d < b.n * a.d

(***************************************************************************)
(* find_best_options                                                       *)
(* all_chances is a dict, iterated in insertion order: a sequence of       *)
(* [name, chances] with distinct names, chances a sequence of              *)
(* [quality_type, chance] with distinct quality types.                     *)
(***************************************************************************)
\* name.endswith(" Support")
EndsWithSupport(name) ==
    /\ Len(name) >= 2
    /\ name[Len(name) - 1] = " "
    /\ name[Len(name)] = "Support"

\* profits: one (chance, price, quality_type) per entry of chances.
ProfitsOf(catalog, name, chances, maxed, min_amount) ==
    [ i \in DOMAIN chances |->
        [ chance |-> chances[i].chance,
          price |-> find_price(catalog, name, chances[i].quality_type, maxed, min_amount),
          quality_type |-> chances[i].quality_type ] ]

\* A faulty variant: the Superior lookup with the caller's min_amount.
CostOfMinAmount(catalog, name, maxed, min_amount, primary, secondary) ==
    (IF EndsWithSupport(name) THEN secondary ELSE primary)
        + (IF maxed THEN find_price(catalog, name, "Superior", TRUE, min_amount) ELSE 0)

CostOf(catalog, name, maxed, min_amount, primary, secondary) ==
    (IF EndsWithSupport(name) THEN secondary ELSE primary)
        + (IF maxed THEN find_price(catalog, name, "Superior", TRUE, 0) ELSE 0)

\* A faulty variant: any(...) in place of all(...).
GuaranteedAny(profits, cost) == \E i \in DOMAIN profits : profits[i].price > cost

\* all(price > cost for _, price, _ in profits)
Guaranteed(profits, cost) == \A i \in DOMAIN profits : profits[i].price > cost

\* sum(chance * price for chance, price, _ in profits)
RECURSIVE SumProfits(_)
SumProfits(profits) ==
    IF profits = <<>> THEN Rat(0, 1)
    ELSE RatAdd(SumProfits(SubSeq(profits, 1, Len(profits) - 1)),
                RatTimesInt(profits[Len(profits)].chance, profits[Len(profits)].price))

\* good.sort(key=lambda i: i[2], reverse=True): stable, by profit descending.
RECURSIVE InsertByProfitDesc(_, _)
InsertByProfitDesc(e, s) ==
    IF s = <<>> THEN <<e>>
    ELSE IF ~RatLess(s[Len(s)].profit, e.profit) THEN Append(s, e)
    ELSE Append(InsertByProfitDesc(e, SubSeq(s, 1, Len(s) - 1)), s[Len(s)])

\* A faulty variant: sorted ascending and reversed, which reverses ties.
RECURSIVE SortByProfitAscReversed(_)
SortByProfitAscReversed(s) ==
    IF s = <<>> THEN <<>>
    ELSE InsertByProfitDesc(s[1], SortByProfitAscReversed(Tail(s)))

RECURSIVE SortByProfitDesc(_)
SortByProfitDesc(s) ==
    IF s = <<>> THEN <<>>
    ELSE InsertByProfitDesc(s[Len(s)], SortByProfitDesc(SubSeq(s, 1, Len(s) - 1)))

\* A faulty variant: without the rare_gems test.
KeepsOptionNoRare(name, guaranteed, profit, guaranteed_only) ==
    /\ ~(guaranteed_only /\ ~guaranteed)
    /\ ~(profit.n <= 0)

\* The filters of the loop body: TRUE when the item is appended to good.
KeepsOption(name, guaranteed, profit, guaranteed_only) ==
    /\ name \notin rare_gems
    /\ ~(guaranteed_only /\ ~guaranteed)
    /\ ~(profit.n <= 0)

\* The loop over all_chances.items(), up to and including item k.
RECURSIVE GoodUpTo(_, _, _, _, _, _, _, _)
GoodUpTo(k, chances_map, catalog, maxed, guaranteed_only, min_amount, primary, secondary) ==
    IF k = 0 THEN <<>>
    ELSE
        LET before == GoodUpTo(k - 1, chances_map, catalog, maxed, guaranteed_only,
                               min_amount, primary, secondary)
            name == chances_map[k].name
            profits == ProfitsOf(catalog, name, chances_map[k].chances, maxed, min_amount)
            cost == CostOf(catalog, name, maxed, min_amount, primary, secondary)
            guaranteed == Guaranteed(profits, cost)
            profit == RatMinusInt(SumProfits(profits), cost)
        IN  IF KeepsOption(name, guaranteed, profit, guaranteed_only)
            THEN Append(before, [ name |-> name, guaranteed |-> guaranteed,
                                  profit |-> profit, profits |-> profits ])
            ELSE before

find_best_options(chances_map, catalog, maxed, guaranteed_only, min_amount, primary, secondary) ==
    SortByProfitDesc(GoodUpTo(Len(chances_map), chances_map, catalog, maxed, guaranteed_only,
                              min_amount, primary, secondary))

(***************************************************************************)
(* Inputs of the profitability engine                                      *)
(***************************************************************************)
ItemNames == { Fireball, ExampleSupport, Portal }

Uniform == << [quality_type |-> "Anomalous", chance |-> Rat(1, 2)],
              [quality_type |-> "Divergent", chance |-> Rat(1, 2)] >>

Skewed == << [quality_type |-> "Divergent", chance |-> Rat(3, 4)],
             [quality_type |-> "Anomalous", chance |-> Rat(1, 4)] >>

Single == << [quality_type |-> "Anomalous", chance |-> Rat(1, 1)] >>

ChancesFor(name) ==
    IF name = Fireball THEN { Uniform, Skewed }
    ELSE IF name = ExampleSupport THEN { Uniform }
    ELSE { Single }

\* Every ordered dict over a subset of ItemNames.
ChanceMaps ==
    { m \in SeqsUpTo([name : ItemNames, chances : { Uniform, Skewed, Single }],
                     Cardinality(ItemNames)) :
        /\ \A i, j \in DOMAIN m : m[i].name = m[j].name => i = j
        /\ \A i \in DOMAIN m : m[i].chances \in ChancesFor(m[i].name) }

\* The listings a catalog may hold, one per slot at most: full ones, a thinly
\* supplied Superior one (priced only with min_amount below the default), a
\* thinly supplied variant and an unlevelled variant (priced only when maxed
\* is off).
Slots ==
    << [name |-> Fireball, tag |-> "Anomalous", level |-> MaxedLevel,
        quality |-> MaxedQuality, count |-> DefaultMinAmount],
       [name |-> Fireball, tag |-> "Divergent", level |-> MaxedLevel,
        quality |-> MaxedQuality, count |-> DefaultMinAmount],
       [name |-> Fireball, tag |-> "Superior", level |-> MaxedLevel,
        quality |-> MaxedQuality, count |-> DefaultMinAmount - 1],
       [name |-> ExampleSupport, tag |-> "Anomalous", level |-> MaxedLevel,
        quality |-> MaxedQuality, count |-> DefaultMinAmount - 1],
       [name |-> ExampleSupport, tag |-> "Divergent", level |-> 1,
        quality |-> 0, count |-> DefaultMinAmount] >>

PortalListing ==
    Gem(Portal, "Anomalous", FALSE, FALSE, MaxedLevel, MaxedQuality,
        MaxPrice, MaxPrice, DefaultMinAmount)

\* The catalog with a listing priced p[i] in slot i, none where p[i] = 0.
RECURSIVE SlotListings(_, _)
SlotListings(p, k) ==
    IF k = 0 THEN <<PortalListing>>
    ELSE IF p[k] = 0 THEN SlotListings(p, k - 1)
    ELSE Append(SlotListings(p, k - 1),
                Gem(Slots[k].name, Slots[k].tag, FALSE, FALSE, Slots[k].level,
                    Slots[k].quality, p[k], p[k], Slots[k].count))

SlotCatalogs == { SlotListings(p, Len(Slots)) : p \in [DOMAIN Slots -> 0..MaxPrice] }

Costs == 0..MaxCost

(***************************************************************************)
(* Specification of the profitability engine                               *)
(***************************************************************************)
InitOptions ==
    /\ all_chances \in ChanceMaps
    /\ prices \in SlotCatalogs
    /\ rows = <<>> /\ gem_chances = <<>> /\ lines = <<>> /\ results = <<>>
    /\ args = NoArgs
    /\ price = 0 /\ good = <<>> /\ printed = <<>> /\ pc = "start"

FindBestOptions ==
    /\ pc = "start"
    /\ \E maxed \in BOOLEAN, guaranteed_only \in BOOLEAN, min_amount \in MinAmounts,
          primary \in Costs, secondary \in Costs :
          /\ args' = [NoArgs EXCEPT !.maxed = maxed, !.guaranteed_only = guaranteed_only,
                                    !.min_amount = min_amount, !.primary = primary,
                                    !.secondary = secondary]
          /\ good' = find_best_options(all_chances, prices, maxed, guaranteed_only,
                                       min_amount, primary, secondary)
          /\ pc' = "find_best_options"
          /\ UNCHANGED <<rows, gem_chances, lines, results, prices, all_chances, price, printed>>

NextOptions == FindBestOptions

SpecOptions == InitOptions /\ [][NextOptions]_vars

(***************************************************************************)
(* What the claims about the engine say, stated without the engine         *)
(***************************************************************************)
\* The least price_div among the eligible listings, 0 when there is none.
CheapestEligible(catalog, a) ==
    LET E == Eligible(catalog, a)
    IN  IF E = {} THEN 0
        ELSE catalog[CHOOSE i \in E : \A j \in E : catalog[i].price_div <= catalog[j].price_div].price_div

Query(name, quality_type, maxed, min_amount) ==
    [name |-> name, quality_type |-> quality_type, maxed |-> maxed, min_amount |-> min_amount]

HasSupportSuffix(name) ==
    Len(name) >= 2 /\ SubSeq(name, Len(name) - 1, Len(name)) = <<" ", "Support">>

TotalCost(name) ==
    (IF HasSupportSuffix(name) THEN args.secondary ELSE args.primary)
        + (IF args.maxed
           THEN CheapestEligible(prices, Query(name, "Superior", TRUE, 0))
           ELSE 0)

VariantPrice(name, quality_type) ==
    CheapestEligible(prices, Query(name, quality_type, args.maxed, args.min_amount))

\* Sum of probability * price over the first k entries of a distribution.
RECURSIVE ExpectedValue(_, _, _)
ExpectedValue(name, chances, k) ==
    IF k = 0 THEN Rat(0, 1)
    ELSE LET c == chances[k].chance
             v == ExpectedValue(name, chances, k - 1)
             x == VariantPrice(name, chances[k].quality_type)
         IN  Rat(v.n * c.d + c.n * x * v.d, v.d * c.d)

ExpectedProfit(item) ==
    LET v == ExpectedValue(item.name, item.chances, Len(item.chances))
    IN  Rat(v.n - TotalCost(item.name) * v.d, v.d)

AllAboveCost(item) ==
    \A i \in DOMAIN item.chances :
        VariantPrice(item.name, item.chances[i].quality_type) > TotalCost(item.name)

Passes(item) ==
    /\ item.name \notin rare_gems
    /\ ExpectedProfit(item).n > 0
    /\ args.guaranteed_only => AllAboveCost(item)

ItemOf(name) == all_chances[CHOOSE i \in DOMAIN all_chances : all_chances[i].name = name]

PositionOf(name) == CHOOSE i \in DOMAIN all_chances : all_chances[i].name = name

\* C2: in every returned entry, guaranteed is true exactly when every breakdown
\* price is strictly greater than the item's total cost; so an entry with a
\* variant priced 0 or at or below a total cost >= 0 is not guaranteed.
C2_GuaranteedIffAllAboveCost ==
    pc = "find_best_options" =>
        \A k \in DOMAIN good :
            LET e == good[k]
                cost == TotalCost(e.name)
            IN  /\ e.guaranteed <=> (\A i \in DOMAIN e.profits : e.profits[i].price > cost)
                /\ (cost >= 0 /\ \E i \in DOMAIN e.profits :
                        e.profits[i].price = 0 \/ e.profits[i].price <= cost)
                      => e.guaranteed = FALSE

C2_Witness ==
    /\ pc = "find_best_options"
    /\ args.maxed
    /\ Len(good) = 2
    /\ \E k \in DOMAIN good :
          /\ good[k].guaranteed
          /\ TotalCost(good[k].name) > args.primary
          /\ Len(good[k].profits) = 2
    /\ \E k \in DOMAIN good :
          /\ ~good[k].guaranteed
          /\ \E i \in DOMAIN good[k].profits : good[k].profits[i].price = 0

\* C3: the reported expected profit of an entry is the sum over the item's
\* distribution of probability * cheapest eligible price (0 when unpriceable),
\* minus the total cost: secondary for a name ending in " Support", primary
\* otherwise, plus, when maxed, the cheapest maxed Superior listing of the item
\* whatever its supply.
C3_ProfitIsExpectationMinusCost ==
    pc = "find_best_options" =>
        \A k \in DOMAIN good :
            /\ RatEq(good[k].profit, ExpectedProfit(ItemOf(good[k].name)))
            /\ Len(good[k].profits) = Len(ItemOf(good[k].name).chances)
            /\ \A i \in DOMAIN good[k].profits :
                  /\ good[k].profits[i].quality_type = ItemOf(good[k].name).chances[i].quality_type
                  /\ good[k].profits[i].chance = ItemOf(good[k].name).chances[i].chance
                  /\ good[k].profits[i].price =
                        VariantPrice(good[k].name, good[k].profits[i].quality_type)

C3_Witness ==
    /\ pc = "find_best_options"
    /\ args.maxed
    /\ args.min_amount = DefaultMinAmount
    /\ args.primary # args.secondary
    /\ \E k \in DOMAIN good :
          /\ good[k].name = Fireball
          /\ TotalCost(Fireball) > args.primary
          /\ good[k].profit.n > 0
          /\ \E i \in DOMAIN good[k].profits : good[k].profits[i].price = 0

\* C4: a name of the distribution map is returned, exactly once, if and only if
\* it is not rare, its expected profit is > 0 and, when guaranteed_only is set,
\* it is guaranteed; nothing else is returned.
C4_ReturnedIffPasses ==
    pc = "find_best_options" =>
        /\ \A i \in DOMAIN all_chances :
              Cardinality({ k \in DOMAIN good : good[k].name = all_chances[i].name })
                 = IF Passes(all_chances[i]) THEN 1 ELSE 0
        /\ \A k \in DOMAIN good :
              /\ \E i \in DOMAIN all_chances : all_chances[i].name = good[k].name
              /\ good[k].profit.n * good[k].profit.d > 0
              /\ good[k].name \notin rare_gems

C4_Witness ==
    /\ pc = "find_best_options"
    /\ args.guaranteed_only
    /\ Len(all_chances) = 3
    /\ Len(good) = 1
    /\ ExpectedProfit(ItemOf(Portal)).n > 0
    /\ AllAboveCost(ItemOf(Portal))
    /\ \E i \in DOMAIN all_chances :
          /\ all_chances[i].name \notin rare_gems
          /\ ExpectedProfit(all_chances[i]).n > 0
          /\ ~AllAboveCost(all_chances[i])

\* C5: the returned list is ordered by expected profit, non-increasing; entries
\* of equal profit keep the order of the distribution map; the list holds each
\* entry that passed the filter once and nothing else.
C5_SortedStablePermutation ==
    pc = "find_best_options" =>
        /\ \A i, j \in DOMAIN good :
              i < j =>
                 /\ ~RatLess(good[i].profit, good[j].profit)
                 /\ RatEq(good[i].profit, good[j].profit)
                       => PositionOf(good[i].name) < PositionOf(good[j].name)
        /\ Len(good) = Cardinality({ i \in DOMAIN all_chances : Passes(all_chances[i]) })
        /\ \A i \in DOMAIN all_chances :
              Passes(all_chances[i]) => \E k \in DOMAIN good : good[k].name = all_chances[i].name

C5_Witness ==
    /\ pc = "find_best_options"
    /\ Len(good) = 2
    /\ RatEq(good[1].profit, good[2].profit)
    /\ good[1].profit # good[2].profit
    /\ good[1].name = ExampleSupport

(***************************************************************************)
(* parse_poedb_gem_data                                                    *)
(* The table body is a sequence of rows [name, quality, weight]: cells 0,  *)
(* 1 and 3, stripped and converted.  Dicts are sequences in insertion      *)
(* order.                                                                  *)
(***************************************************************************)
\* gem_sums[name] after the first k rows (a defaultdict(int)).
RECURSIVE GemSums(_, _, _)
GemSums(rs, k, name) ==
    IF k = 0 THEN 0
    ELSE GemSums(rs, k - 1, name)
            + (IF rs[k].quality # "Superior" /\ rs[k].name = name THEN rs[k].weight ELSE 0)

\* d[key] = value on a dict kept as a sequence of [key, value]: an existing key
\* keeps its place and takes the new value, a new key goes last.
DictSet(d, key, value) ==
    IF \E i \in DOMAIN d : d[i].key = key
    THEN [ i \in DOMAIN d |-> IF d[i].key = key THEN [key |-> key, value |-> value] ELSE d[i] ]
    ELSE Append(d, [key |-> key, value |-> value])

\* d[key] of a defaultdict(dict)
DictGet(d, key) ==
    IF \E i \in DOMAIN d : d[i].key = key
    THEN d[CHOOSE i \in DOMAIN d : d[i].key = key].value
    ELSE <<>>

\* gem_weights after the first k rows.
RECURSIVE GemWeights(_, _)
GemWeights(rs, k) ==
    IF k = 0 THEN <<>>
    ELSE LET before == GemWeights(rs, k - 1)
         IN  IF rs[k].quality # "Superior"
             THEN DictSet(before, rs[k].name,
                          DictSet(DictGet(before, rs[k].name), rs[k].quality, rs[k].weight))
             ELSE before

\* TRUE when some weight / gem_sums[name] of the second loop divides by zero.
DividesByZero(rs) ==
    LET weights == GemWeights(rs, Len(rs))
    IN  \E i \in DOMAIN weights : GemSums(rs, Len(rs), weights[i].key) = 0

\* The dict the second loop builds, when no division fails.
parse_poedb_gem_data(rs) ==
    LET weights == GemWeights(rs, Len(rs))
    IN  [ i \in DOMAIN weights |->
            [ name |-> weights[i].key,
              chances |->
                [ j \in DOMAIN weights[i].value |->
                    [ quality_type |-> weights[i].value[j].key,
                      chance |-> Rat(weights[i].value[j].value,
                                     GemSums(rs, Len(rs), weights[i].key)) ] ] ] ]

(***************************************************************************)
(* Specification of the outcome-distribution parser                        *)
(***************************************************************************)
RowNames == { Fireball, Spark }

RowQualities == { "Superior", "Anomalous", "Divergent" }

TableRows == [name : RowNames, quality : RowQualities, weight : 0..MaxWeight]

InitPoedb ==
    /\ rows \in SeqsUpTo(TableRows, MaxRows)
    /\ gem_chances = <<>> /\ lines = <<>> /\ results = <<>>
    /\ prices = <<>> /\ all_chances = <<>> /\ args = NoArgs
    /\ price = 0 /\ good = <<>> /\ printed = <<>> /\ pc = "start"

ParsePoedbGemData ==
    /\ pc = "start"
    /\ IF DividesByZero(rows)
       THEN /\ pc' = "ZeroDivisionError"
            /\ gem_chances' = gem_chances
       ELSE /\ pc' = "parse_poedb_gem_data"
            /\ gem_chances' = parse_poedb_gem_data(rows)
    /\ UNCHANGED <<rows, lines, results, prices, all_chances, args, price, good, printed>>

NextPoedb == ParsePoedbGemData

SpecPoedb == InitPoedb /\ [][NextPoedb]_vars

RECURSIVE SumOfWeights(_, _)
SumOfWeights(chances, k) ==
    IF k = 0 THEN 0 ELSE SumOfWeights(chances, k - 1) + chances[k].chance.n

\* C6: every item of the emitted distribution has probabilities that sum to 1
\* (its recorded weights add up to the divisor they are divided by), whatever
\* the rows, repeated (name, tag) pairs included, and no entry is tagged
\* Superior.
C6_Claimed_ProbabilitiesSumToOne ==
    pc = "parse_poedb_gem_data" =>
        \A i \in DOMAIN gem_chances :
            /\ \A j \in DOMAIN gem_chances[i].chances :
                  /\ gem_chances[i].chances[j].quality_type # "Superior"
                  /\ SumOfWeights(gem_chances[i].chances, Len(gem_chances[i].chances))
                        = gem_chances[i].chances[j].chance.d

\* C9: an item with Superior rows only gets no entry, and the parser never
\* divides by a zero total: with non-negative weights every emitted name has a
\* strictly positive divisor.
C9_Claimed_NoDivisionByZero ==
    /\ pc # "ZeroDivisionError"
    /\ pc = "parse_poedb_gem_data" =>
          /\ \A i \in DOMAIN gem_chances :
                /\ gem_chances[i].chances # <<>>
                /\ \E k \in DOMAIN rows :
                      rows[k].name = gem_chances[i].name /\ rows[k].quality # "Superior"
                /\ \A j \in DOMAIN gem_chances[i].chances :
                      gem_chances[i].chances[j].chance.d > 0

(***************************************************************************)
(* parse_gems                                                              *)
(* A record of prices["lines"] is a function from the keys it has to their *)
(* values.                                                                 *)
(***************************************************************************)
qualities == <<"Superior", "Anomalous", "Divergent", "Phantasmal">>

\* s.startswith(word), word one of the chunk words
StartsWith(s, word) == s # <<>> /\ s[1] = word

\* s.split(" ", 1)[-1]: what follows the first space, all of s when it has none
SplitLast(s) ==
    IF \E i \in DOMAIN s : s[i] = " "
    THEN LET first == CHOOSE i \in DOMAIN s : s[i] = " " /\ \A j \in 1..(i - 1) : s[j] # " "
         IN  SubSeq(s, first + 1, Len(s))
    ELSE s

\* gem.get(key, default)
Get(gem, key, default) == IF key \in DOMAIN gem THEN gem[key] ELSE default

\* The first loop: [quality_type, name] after the scan of qualities.
ScanQualities(name) ==
    LET hits == { i \in DOMAIN qualities : StartsWith(name, qualities[i]) }
    IN  IF hits = {} THEN [quality_type |-> qualities[1], name |-> name]
        ELSE [ quality_type |-> qualities[CHOOSE i \in hits : \A j \in hits : i <= j],
               name |-> SplitLast(name) ]

\* One iteration of the loop over prices["lines"].
ParseGem(gem) ==
    LET scanned == ScanQualities(gem["name"])
        is_vaal == StartsWith(scanned.name, "Vaal")
        name == IF is_vaal THEN SplitLast(scanned.name) ELSE scanned.name
    IN  Gem(name, scanned.quality_type, is_vaal,
            Get(gem, "corrupted", FALSE), Get(gem, "gemLevel", 1), Get(gem, "gemQuality", 0),
            Get(gem, "chaosValue", 0), Get(gem, "divineValue", 0), Get(gem, "count", 0))

parse_gems(ls) == [ i \in DOMAIN ls |-> ParseGem(ls[i]) ]

(***************************************************************************)
(* Specification of the listing parser                                     *)
(***************************************************************************)
Chunks == { "Superior", "Anomalous", "Divergent", "Phantasmal", "Vaal", " ", "x" }

RawNames == SeqsUpTo(Chunks, MaxNameLen)

BareRecord(name) == [ k \in {"name"} |-> name ]

FullRecord(name) ==
    [ name |-> name, corrupted |-> TRUE, gemLevel |-> MaxedLevel, gemQuality |-> MaxedQuality,
      chaosValue |-> MaxPrice, divineValue |-> 1, count |-> DefaultMinAmount ]

RawRecords == { BareRecord(n) : n \in RawNames } \cup { FullRecord(n) : n \in RawNames }

\* Well-formed records that may follow the first one.
FollowingRecords ==
    { FullRecord(<<"Divergent", " ", "x">>), BareRecord(<<"Vaal", " ", "x">>) }

InitGems ==
    /\ lines \in { <<>> } \cup
                 { <<r>> \o rest : r \in RawRecords,
                                   rest \in SeqsUpTo(FollowingRecords, MaxLines - 1) }
    /\ rows = <<>> /\ gem_chances = <<>> /\ results = <<>>
    /\ prices = <<>> /\ all_chances = <<>> /\ args = NoArgs
    /\ price = 0 /\ good = <<>> /\ printed = <<>> /\ pc = "start"

ParseGems ==
    /\ pc = "start"
    /\ results' = parse_gems(lines)
    /\ pc' = "parse_gems"
    /\ UNCHANGED <<rows, gem_chances, lines, prices, all_chances, args, price, good, printed>>

NextGems == ParseGems

SpecGems == InitGems /\ [][NextGems]_vars

IsTag(word) == word \in { "Superior", "Anomalous", "Divergent", "Phantasmal" }

\* s without its leading word and the space that separates it from the rest
StripPrefix(s, word) ==
    IF s # <<>> /\ s[1] = word
    THEN IF Len(s) >= 2 /\ s[2] = " " THEN SubSeq(s, 3, Len(s)) ELSE Tail(s)
    ELSE s

ClaimedTag(raw) == IF raw # <<>> /\ IsTag(raw[1]) THEN raw[1] ELSE "Superior"

ClaimedRest(raw) == IF raw # <<>> /\ IsTag(raw[1]) THEN StripPrefix(raw, raw[1]) ELSE raw

\* C8: the tag is the first quality word that is a prefix of the raw name
\* (Superior if none) and that prefix is stripped; is_vaal is true exactly when
\* what remains has the prefix Vaal, which is stripped; the base name is what
\* remains and starts with neither a quality word nor Vaal; there is exactly
\* one listing per record, in input order.
C8_Claimed_PrefixStripping ==
    pc = "parse_gems" =>
        /\ Len(results) = Len(lines)
        /\ \A i \in DOMAIN lines :
              LET raw == lines[i]["name"]
                  rest == ClaimedRest(raw)
              IN  /\ results[i].quality_type = ClaimedTag(raw)
                  /\ results[i].is_vaal = (rest # <<>> /\ rest[1] = "Vaal")
                  /\ results[i].name = StripPrefix(rest, "Vaal")
                  /\ results[i].name # <<>> =>
                        (~IsTag(results[i].name[1]) /\ results[i].name[1] # "Vaal")

(***************************************************************************)
(* best_simple_gems and print_profits                                      *)
(* printed holds one entry per line written, with the values the line is   *)
(* formatted from.                                                         *)
(***************************************************************************)
\* A faulty variant: without the quality_type test.
BestSimpleKeepsAnyQuality(gem, min_amount) ==
    /\ gem.name \notin rare_gems
    /\ ~gem.is_corrupted
    /\ ~(gem.quality < MaxedQuality)
    /\ ~(gem.level < MaxedLevel)
    /\ ~(gem.count < min_amount)

\* The filters of the loop of best_simple_gems: TRUE when gem is appended to ok.
BestSimpleKeeps(gem, min_amount) ==
    /\ ~(gem.quality_type # "Superior")
    /\ gem.name \notin rare_gems
    /\ ~gem.is_corrupted
    /\ ~(gem.quality < MaxedQuality)
    /\ ~(gem.level < MaxedLevel)
    /\ ~(gem.count < min_amount)

\* ok.sort(key=lambda g: g.price_chaos, reverse=True): stable, descending.
RECURSIVE InsertByPriceChaosDesc(_, _)
InsertByPriceChaosDesc(g, s) ==
    IF s = <<>> THEN <<g>>
    ELSE IF s[Len(s)].price_chaos >= g.price_chaos THEN Append(s, g)
    ELSE Append(InsertByPriceChaosDesc(g, SubSeq(s, 1, Len(s) - 1)), s[Len(s)])

RECURSIVE SortByPriceChaosDesc(_)
SortByPriceChaosDesc(s) ==
    IF s = <<>> THEN <<>>
    ELSE InsertByPriceChaosDesc(s[Len(s)], SortByPriceChaosDesc(SubSeq(s, 1, Len(s) - 1)))

\* s[:n]
SliceTo(s, n) ==
    IF n >= 0 THEN SubSeq(s, 1, IF n < Len(s) THEN n ELSE Len(s))
    ELSE SubSeq(s, 1, IF Len(s) + n > 0 THEN Len(s) + n ELSE 0)

best_simple_gems(catalog, count, min_amount) ==
    LET keep(g) == BestSimpleKeeps(g, min_amount)
        ok == SliceTo(SortByPriceChaosDesc(SelectSeq(catalog, keep)), count)
    IN  [ i \in DOMAIN ok |-> [name |-> ok[i].name, price_chaos |-> ok[i].price_chaos] ]

\* The line print_profits writes for one item of best.
ProfitLine(item) ==
    [ marker |-> IF item.guaranteed THEN "!!! " ELSE "", name |-> item.name,
      profit |-> item.profit, details |-> item.profits ]

\* A faulty variant: stops at n >= count.
RECURSIVE PrintLoopExclusive(_, _, _)
PrintLoopExclusive(best, n, count) ==
    IF n >= Len(best) \/ n >= count THEN <<>>
    ELSE <<ProfitLine(best[n + 1])>> \o PrintLoopExclusive(best, n + 1, count)

\* for n, item in enumerate(best), from index n on: stops when n > count.
RECURSIVE PrintLoop(_, _, _)
PrintLoop(best, n, count) ==
    IF n >= Len(best) THEN <<>>
    ELSE IF n > count THEN <<>>
    ELSE <<ProfitLine(best[n + 1])>> \o PrintLoop(best, n + 1, count)

print_profits(chances_map, catalog, maxed, guaranteed_only, min_count, count, primary, secondary) ==
    PrintLoop(find_best_options(chances_map, catalog, maxed, guaranteed_only, min_count,
                                primary, secondary), 0, count)

Counts == 0..MaxCount

(***************************************************************************)
(* Specification of the leveling shortlist: any catalog, count, min_amount *)
(***************************************************************************)
\* A Superior listing that passes every filter of best_simple_gems, under one
\* of two names, or one that fails exactly one of them.
SimpleKinds ==
    { [name |-> Fireball, tag |-> "Superior", f |-> NoFlaw],
      [name |-> Spark, tag |-> "Superior", f |-> NoFlaw],
      [name |-> Portal, tag |-> "Superior", f |-> NoFlaw],
      [name |-> Fireball, tag |-> "Anomalous", f |-> NoFlaw] }
    \cup { [name |-> Fireball, tag |-> "Superior", f |-> f] : f \in Flaws }

SimplePool ==
    { Gem(k.name, k.tag, FALSE, k.f.c, k.f.l, k.f.q, p, MaxPrice - p, k.f.n) :
        k \in SimpleKinds, p \in 0..MaxPrice }

InitSimple ==
    /\ prices \in SeqsUpTo(SimplePool, MaxCatalog)
    /\ rows = <<>> /\ gem_chances = <<>> /\ lines = <<>> /\ results = <<>>
    /\ all_chances = <<>> /\ args = NoArgs
    /\ price = 0 /\ good = <<>> /\ printed = <<>> /\ pc = "start"

BestSimpleGems ==
    /\ pc = "start"
    /\ \E count \in Counts, min_amount \in MinAmounts :
          /\ args' = [NoArgs EXCEPT !.count = count, !.min_amount = min_amount]
          /\ printed' = best_simple_gems(prices, count, min_amount)
          /\ pc' = "best_simple_gems"
          /\ UNCHANGED <<rows, gem_chances, lines, results, prices, all_chances, price, good>>

NextSimple == BestSimpleGems

SpecSimple == InitSimple /\ [][NextSimple]_vars

SimpleEligible ==
    { i \in DOMAIN prices :
        /\ prices[i].quality_type = "Superior"
        /\ prices[i].is_corrupted = FALSE
        /\ prices[i].level >= 20
        /\ prices[i].quality >= 20
        /\ prices[i].count >= args.min_amount
        /\ prices[i].name \notin rare_gems }

\* The place of eligible listing i: after the dearer ones and the equally
\* priced earlier ones.
SimpleRank(i) ==
    1 + Cardinality({ j \in SimpleEligible :
                        \/ prices[j].price_chaos > prices[i].price_chaos
                        \/ prices[j].price_chaos = prices[i].price_chaos /\ j < i })

\* C7: best_simple_gems outputs the first count (or all, if fewer) of the
\* Superior, uncorrupted, level >= 20, quality >= 20, count >= min_amount,
\* non-rare listings, by price_chaos non-increasing, ties in catalog order.
C7_ShortlistIsTopCount ==
    pc = "best_simple_gems" =>
        /\ Len(printed) = IF args.count < Cardinality(SimpleEligible)
                          THEN args.count ELSE Cardinality(SimpleEligible)
        /\ \A i \in SimpleEligible :
              SimpleRank(i) <= args.count =>
                 /\ printed[SimpleRank(i)].name = prices[i].name
                 /\ printed[SimpleRank(i)].price_chaos = prices[i].price_chaos

C7_Witness ==
    /\ pc = "best_simple_gems"
    /\ Len(prices) = MaxCatalog
    /\ Cardinality(SimpleEligible) = 2
    /\ args.count = 2
    /\ args.min_amount = DefaultMinAmount
    /\ prices[1].price_chaos = prices[2].price_chaos
    /\ printed[1].name # printed[2].name
    /\ printed[1].name = prices[1].name

(***************************************************************************)
(* Specification of the two report sections: print_profits and             *)
(* best_simple_gems on the same inputs                                     *)
(***************************************************************************)
ReportNames == { Fireball, Spark, ExampleSupport }

ReportMaps ==
    { m \in SeqsUpTo([name : ReportNames, chances : { Single }], Cardinality(ReportNames)) :
        \A i, j \in DOMAIN m : m[i].name = m[j].name => i = j }

\* One Anomalous listing per name at most, and one Superior listing for two of
\* the names, all maxed and well supplied.
ReportSlots ==
    << [name |-> Fireball, tag |-> "Anomalous"],
       [name |-> Spark, tag |-> "Anomalous"],
       [name |-> ExampleSupport, tag |-> "Anomalous"],
       [name |-> Fireball, tag |-> "Superior"],
       [name |-> Spark, tag |-> "Superior"] >>

RECURSIVE ReportListings(_, _)
ReportListings(p, k) ==
    IF k = 0 THEN <<>>
    ELSE IF p[k] = 0 THEN ReportListings(p, k - 1)
    ELSE Append(ReportListings(p, k - 1),
                Gem(ReportSlots[k].name, ReportSlots[k].tag, FALSE, FALSE, MaxedLevel,
                    MaxedQuality, p[k], p[k], DefaultMinAmount))

ReportCatalogs ==
    { ReportListings(p, Len(ReportSlots)) : p \in [DOMAIN ReportSlots -> 0..MaxPrice] }

InitReport ==
    /\ all_chances \in ReportMaps
    /\ prices \in ReportCatalogs
    /\ rows = <<>> /\ gem_chances = <<>> /\ lines = <<>> /\ results = <<>>
    /\ args = NoArgs
    /\ price = 0 /\ good = <<>> /\ printed = <<>> /\ pc = "start"

PrintProfits ==
    /\ pc = "start"
    /\ \E maxed \in BOOLEAN, count \in Counts, cost \in Costs :
          /\ args' = [NoArgs EXCEPT !.maxed = maxed, !.min_amount = DefaultMinAmount,
                                    !.count = count, !.primary = cost, !.secondary = cost]
          /\ printed' = print_profits(all_chances, prices, maxed, FALSE, DefaultMinAmount,
                                      count, cost, cost)
          /\ pc' = "print_profits"
          /\ UNCHANGED <<rows, gem_chances, lines, results, prices, all_chances, price, good>>

NextReport == PrintProfits \/ BestSimpleGems

SpecReport == InitReport /\ [][NextReport]_vars

Passing == { i \in DOMAIN all_chances : Passes(all_chances[i]) }

\* The place of passing item i in the ranking: after the more profitable ones
\* and the equally profitable earlier ones.
ProfitRank(i) ==
    1 + Cardinality({ j \in Passing :
                        \/ RatLess(ExpectedProfit(all_chances[i]), ExpectedProfit(all_chances[j]))
                        \/ /\ RatEq(ExpectedProfit(all_chances[i]), ExpectedProfit(all_chances[j]))
                           /\ j < i })

====
